---- MODULE Spec2Model ----
(***************************************************************************)
(* Model of src/TaskScheduler.py: schedule_tasks and its two nested        *)
(* functions validate_task and traverse_and_schedule.                      *)
(*                                                                         *)
(* A Python value that the code inspects with isinstance / `in` is a       *)
(* record that carries the outcome of each test the code can make on it:   *)
(*   task:  isDict, hasName, nameIsStr, name, hasPriority, priorityType,   *)
(*          priority, hasSubtasks, subtasksIsList, subtasks                *)
(*   task_hierarchy: isList, items                                         *)
(* The recursion of traverse_and_schedule is an explicit call stack; each  *)
(* frame also records the path (indices in the input lists) of its task,   *)
(* and `origin` records, for each name in an accumulator, the path of the  *)
(* node that contributed it.                                               *)
(***************************************************************************)
EXTENDS Integers, Sequences, FiniteSets, TLC

VARIABLES task_hierarchy, original, pc, sorted_tasks, result, origin, stack,
          error, raisedDepth, validateCalls, second, first

vars == <<task_hierarchy, original, pc, sorted_tasks, result, origin, stack,
          error, raisedDepth, validateCalls, second, first>>

(* ------------------------------ bounds -------------------------------- *)
\* at most this many nodes in a generated hierarchy
MaxNodes == 3
\* generated numeric priorities are 0..MaxPriority
MaxPriority == 1
\* at most this many nodes in a generated hierarchy that violates the schema
MaxInvalidNodes == 2
\* at most this many schema violations in a generated hierarchy
MaxDefects == 2

(* ------------------------- values and errors --------------------------- *)
Names == {"a", "b"}

NoError == [type |-> "", msg |-> ""]
ErrNotDict == [type |-> "ValueError", msg |-> "Each task must be a dictionary."]
ErrName ==
    [type |-> "ValueError", msg |-> "Each task must have a 'name' field of type string."]
ErrPriority ==
    [type |-> "ValueError", msg |-> "The 'priority' field, if present, must be a number."]
ErrSubtasks == [type |-> "ValueError", msg |-> "The 'subtasks' field must be a list."]
ErrHierarchy == [type |-> "ValueError", msg |-> "The task hierarchy must be a list."]
ErrTopLevel == [type |-> "ValueError", msg |-> "All top-level tasks must be dictionaries."]
\* raised by sorted() when two keys cannot be ordered by <
ErrCompare == [type |-> "TypeError", msg |-> "'<' not supported between instances"]

\* a dict with the given name and priority fields and no 'subtasks' key
Dict(hasName, nameIsStr, name, hasPriority, priorityType, priority) ==
    [isDict |-> TRUE, hasName |-> hasName, nameIsStr |-> nameIsStr, name |-> name,
     hasPriority |-> hasPriority, priorityType |-> priorityType, priority |-> priority,
     hasSubtasks |-> FALSE, subtasksIsList |-> FALSE, subtasks |-> <<>>]

\* a value that is not a dict (a string, a number, a list)
NotADict ==
    [isDict |-> FALSE, hasName |-> FALSE, nameIsStr |-> FALSE, name |-> "",
     hasPriority |-> FALSE, priorityType |-> "", priority |-> 0,
     hasSubtasks |-> FALSE, subtasksIsList |-> FALSE, subtasks |-> <<>>]

WithSubtasks(task, subs) ==
    [task EXCEPT !.hasSubtasks = TRUE, !.subtasksIsList = TRUE, !.subtasks = subs]

\* 'subtasks' holds a value that is not a list
WithBadSubtasks(task) ==
    [task EXCEPT !.hasSubtasks = TRUE, !.subtasksIsList = FALSE, !.subtasks = <<>>]

Task(name, priority) == Dict(TRUE, TRUE, name, TRUE, "number", priority)
TaskNoPriority(name) == Dict(TRUE, TRUE, name, FALSE, "", 0)

List(items) == [isList |-> TRUE, items |-> items]
NotAList == [isList |-> FALSE, items |-> <<>>]

(* --------------------------- the driver's cases ------------------------ *)
Case1 ==
    List(<< WithSubtasks(Task("Task A", 2),
                << WithSubtasks(Task("Task B", 1), << Task("Task D", 3) >>),
                   Task("Task C", 3) >>),
            Task("Task E", 0) >>)
Case2 == List(<<>>)
Case3 == List(<< Task("Task X", 5) >>)
Case4 == List(<< WithBadSubtasks(TaskNoPriority("Task Invalid")) >>)
Case5 ==
    List(<< Task("Task Y", 3),
            WithSubtasks(TaskNoPriority("Task Z"), << Task("Subtask Valid", 1) >>),
            WithBadSubtasks(TaskNoPriority("Task Invalid")) >>)
test_cases == {Case1, Case2, Case3, Case4, Case5}

(* ------------------------------ sorting -------------------------------- *)
\* a key that ignores the priority: the list keeps its input order
KeyConstant(x) == [type |-> "number", val |-> 0]

\* the sort key: x.get('priority', 0)
Key(x) ==
    IF x.hasPriority THEN [type |-> x.priorityType, val |-> x.priority]
    ELSE [type |-> "number", val |-> 0]

\* Python orders two numbers and two strings; a number against a string
\* raises TypeError
Comparable(k1, k2) == k1.type = k2.type /\ k1.type \in {"number", "str"}

\* sorted() raises when the list holds two keys it cannot order
SortRaises(entries) ==
    \E i, j \in 1..Len(entries) :
        i < j /\ ~Comparable(Key(entries[i].task), Key(entries[j].task))

\* ascending instead of descending (reverse=True left out)
InsertAtAscending(done, e) ==
    Cardinality({i \in 1..Len(done) : Key(done[i].task).val <= Key(e.task).val})

\* equal keys end up in reverse input order (an ascending sort, then reversed)
InsertAtUnstable(done, e) ==
    Cardinality({i \in 1..Len(done) : Key(done[i].task).val > Key(e.task).val})

\* position of entry e in a list already in stable descending order: after
\* every entry whose key is not smaller
InsertAt(done, e) ==
    Cardinality({i \in 1..Len(done) : Key(done[i].task).val >= Key(e.task).val})

RECURSIVE SortedPrefix(_, _)
SortedPrefix(entries, n) ==
    IF n = 0 THEN <<>>
    ELSE LET done == SortedPrefix(entries, n - 1)
             at == InsertAt(done, entries[n])
         IN  SubSeq(done, 1, at) \o <<entries[n]>> \o SubSeq(done, at + 1, Len(done))

\* sorted(xs, key=lambda x: x.get('priority', 0), reverse=True): a new list,
\* descending by key, equal keys in their input order
Sorted(entries) == SortedPrefix(entries, Len(entries))

\* the elements of a list, each with the path of its position
Entries(items, path) ==
    [i \in 1..Len(items) |-> [task |-> items[i], path |-> Append(path, i)]]

\* list.sort(): the caller's list is reordered in place
InputAfterSortInPlace(hierarchy, sortedNodes) == [hierarchy EXCEPT !.items = sortedNodes]

\* sorted() leaves the list it is given as it was
InputAfterSorted(hierarchy, sortedNodes) == hierarchy

\* any() in place of all()
AnyTopLevelDict(hierarchy) ==
    \E i \in 1..Len(hierarchy.items) : hierarchy.items[i].isDict

\* line 58: all(isinstance(task, dict) for task in task_hierarchy)
AllTopLevelDicts(hierarchy) ==
    \A i \in 1..Len(hierarchy.items) : hierarchy.items[i].isDict

\* the name goes in before the subtasks' names
WithOwnNameFirst(tasks, name) == <<name>> \o tasks

\* line 51: tasks.append(task['name'])
WithOwnName(tasks, name) == Append(tasks, name)

\* an assignment in place of extend
ExtendOverwrites(acc, more) == more

\* lines 48 and 67: acc.extend(more)
Extend(acc, more) == acc \o more

(* ----------------------------- validation ------------------------------ *)
\* validate_task without the check of 'priority'
RECURSIVE ValidateNoPriority(_)
RECURSIVE ValidateEachNoPriority(_, _)
ValidateNoPriority(task) ==
    IF ~task.isDict THEN [error |-> ErrNotDict, calls |-> 1]
    ELSE IF ~task.hasName \/ ~task.nameIsStr THEN [error |-> ErrName, calls |-> 1]
    ELSE IF task.hasSubtasks
         THEN IF ~task.subtasksIsList THEN [error |-> ErrSubtasks, calls |-> 1]
              ELSE LET r == ValidateEachNoPriority(task.subtasks, 1)
                   IN  [error |-> r.error, calls |-> r.calls + 1]
    ELSE [error |-> NoError, calls |-> 1]

ValidateEachNoPriority(subtasks, i) ==
    IF i > Len(subtasks) THEN [error |-> NoError, calls |-> 0]
    ELSE LET r == ValidateNoPriority(subtasks[i])
         IN  IF r.error # NoError THEN r
             ELSE LET rest == ValidateEachNoPriority(subtasks, i + 1)
                  IN  [error |-> rest.error, calls |-> r.calls + rest.calls]

\* validate_task(task): the error it raises (NoError when it returns) and
\* the number of validate_task calls made, this one included
RECURSIVE validate_task(_)
RECURSIVE ValidateEach(_, _)
validate_task(task) ==
    IF ~task.isDict THEN [error |-> ErrNotDict, calls |-> 1]
    ELSE IF ~task.hasName \/ ~task.nameIsStr THEN [error |-> ErrName, calls |-> 1]
    ELSE IF task.hasPriority /\ task.priorityType # "number"
         THEN [error |-> ErrPriority, calls |-> 1]
    ELSE IF task.hasSubtasks
         THEN IF ~task.subtasksIsList THEN [error |-> ErrSubtasks, calls |-> 1]
              ELSE LET r == ValidateEach(task.subtasks, 1)
                   IN  [error |-> r.error, calls |-> r.calls + 1]
    ELSE [error |-> NoError, calls |-> 1]

\* for subtask in task['subtasks']: validate_task(subtask), from element i on
ValidateEach(subtasks, i) ==
    IF i > Len(subtasks) THEN [error |-> NoError, calls |-> 0]
    ELSE LET r == validate_task(subtasks[i])
         IN  IF r.error # NoError THEN r
             ELSE LET rest == ValidateEach(subtasks, i + 1)
                  IN  [error |-> rest.error, calls |-> r.calls + rest.calls]

(* ------------------------- generated hierarchies ----------------------- *)
\* A generated hierarchy of n nodes is a parent vector (nodes numbered in
\* pre-order, 0 for a top-level node) and a label for each node.
RECURSIVE IsAncestorOrSelf(_, _, _)
IsAncestorOrSelf(parent, a, i) ==
    IF i = 0 THEN FALSE
    ELSE IF i = a THEN TRUE
    ELSE IsAncestorOrSelf(parent, a, parent[i])

ParentVectors(n) ==
    {parent \in [1..n -> 0..(n - 1)] :
        \A i \in 1..n :
            /\ parent[i] < i
            /\ parent[i] = 0 \/ IsAncestorOrSelf(parent, parent[i], i - 1)}

\* the elements of a set of numbers in ascending order
RECURSIVE Ascending(_)
Ascending(S) ==
    IF S = {} THEN <<>>
    ELSE LET m == CHOOSE x \in S : \A y \in S : x <= y
         IN  <<m>> \o Ascending(S \ {m})

GoodNames == {<<TRUE, TRUE, n>> : n \in Names}
\* no 'name' key; a 'name' that is not a string
BadNames == {<<FALSE, FALSE, "">>, <<TRUE, FALSE, "">>}
GoodPriorities == {<<FALSE, "", 0>>} \cup {<<TRUE, "number", p>> : p \in 0..MaxPriority}
\* a 'priority' that is a string
BadPriorities == {<<TRUE, "str", 0>>}

\* a node without children is a dict with no 'subtasks' key ("plain"), a dict
\* whose 'subtasks' is not a list, or not a dict at all
ValidLabels == [name : GoodNames, priority : GoodPriorities, leaf : {"plain"}]
InvalidLabels ==
    [name : {<<TRUE, TRUE, "a">>} \cup BadNames,
     priority : GoodPriorities \cup BadPriorities,
     leaf : {"plain", "badsubtasks"}]
    \cup [name : {<<TRUE, TRUE, "a">>}, priority : {<<FALSE, "", 0>>}, leaf : {"notadict"}]

Defects(label) ==
    (IF label.name \in BadNames THEN 1 ELSE 0)
    + (IF label.priority \in BadPriorities THEN 1 ELSE 0)
    + (IF label.leaf # "plain" THEN 1 ELSE 0)

RECURSIVE Sum(_, _)
Sum(f, n) == IF n = 0 THEN 0 ELSE f[n] + Sum(f, n - 1)

RECURSIVE BuildNode(_, _, _)
BuildNode(parent, label, i) ==
    LET l == label[i]
        head == Dict(l.name[1], l.name[2], l.name[3],
                     l.priority[1], l.priority[2], l.priority[3])
        children == Ascending({j \in DOMAIN parent : parent[j] = i})
    IN  IF l.leaf = "notadict" THEN NotADict
        ELSE IF l.leaf = "badsubtasks" THEN WithBadSubtasks(head)
        ELSE IF children = <<>> THEN head
        ELSE WithSubtasks(head,
                 [k \in 1..Len(children) |-> BuildNode(parent, label, children[k])])

Build(parent, label) ==
    LET tops == Ascending({j \in DOMAIN parent : parent[j] = 0})
    IN  List([k \in 1..Len(tops) |-> BuildNode(parent, label, tops[k])])

\* only a plain dict carries children
WellFormed(parent, label) ==
    \A i \in DOMAIN parent : parent[i] # 0 => label[parent[i]].leaf = "plain"

(* ------------------------------- actions ------------------------------- *)
\* the state in which the caller makes the first call
Start(hierarchy) ==
    /\ task_hierarchy = hierarchy
    /\ original = hierarchy
    /\ pc = "start"
    /\ sorted_tasks = <<>>
    /\ result = <<>>
    /\ origin = <<>>
    /\ stack = <<>>
    /\ error = NoError
    /\ raisedDepth = 0
    /\ validateCalls = 0
    /\ second = FALSE
    /\ first = [pc |-> "", result |-> <<>>, error |-> NoError]

\* valid hierarchies of up to MaxNodes nodes, and the driver's five cases
Init ==
    \/ \E h \in test_cases : Start(h)
    \/ \E n \in 0..MaxNodes : \E parent \in ParentVectors(n) :
           \E label \in [1..n -> ValidLabels] : Start(Build(parent, label))

\* hierarchies of up to MaxInvalidNodes nodes with up to MaxDefects schema
\* violations, a task_hierarchy that is not a list, and the driver's cases
InitInvalid ==
    \/ Start(NotAList)
    \/ \E h \in test_cases : Start(h)
    \/ \E n \in 0..MaxInvalidNodes : \E parent \in ParentVectors(n) :
           \E label \in [1..n -> InvalidLabels] :
               /\ WellFormed(parent, label)
               /\ Sum([i \in 1..n |-> Defects(label[i])], n) <= MaxDefects
               /\ Start(Build(parent, label))

\* an exception leaves every frame: the call ends with no return value
Raise(e, depth) ==
    /\ pc' = "raised"
    /\ error' = e
    /\ raisedDepth' = depth

\* lines 55-59: the two checks on the shape of task_hierarchy
CheckHierarchy ==
    /\ pc = "start"
    /\ IF ~task_hierarchy.isList THEN Raise(ErrHierarchy, 0)
       ELSE IF ~AllTopLevelDicts(task_hierarchy)
            THEN Raise(ErrTopLevel, 0)
       ELSE pc' = "sort" /\ UNCHANGED <<error, raisedDepth>>
    /\ UNCHANGED <<task_hierarchy, original, sorted_tasks, result, origin, stack,
                   validateCalls, second, first>>

\* lines 62-65: sorted_tasks = sorted(task_hierarchy, ...); result = []
SortTopLevel ==
    /\ pc = "sort"
    /\ LET entries == Entries(task_hierarchy.items, <<>>)
       IN  IF SortRaises(entries)
           THEN /\ Raise(ErrCompare, 0)
                /\ UNCHANGED <<task_hierarchy, sorted_tasks>>
           ELSE /\ sorted_tasks' = Sorted(entries)
                /\ task_hierarchy' =
                       InputAfterSorted(task_hierarchy,
                           [i \in 1..Len(entries) |-> Sorted(entries)[i].task])
                /\ pc' = "loop"
                /\ UNCHANGED <<error, raisedDepth>>
    /\ result' = <<>>
    /\ origin' = <<>>
    /\ UNCHANGED <<original, stack, validateCalls, second, first>>

\* lines 41-47: a call traverse_and_schedule(entry.task) made from the frames
\* in callers: validate, tasks = [], and the sorted subtasks to loop over
Call(entry, callers) ==
    LET v == validate_task(entry.task)
        subs == IF entry.task.hasSubtasks
                THEN Entries(entry.task.subtasks, entry.path) ELSE <<>>
    IN  /\ validateCalls' = validateCalls + v.calls
        /\ IF v.error # NoError
           THEN Raise(v.error, Len(callers) + 1) /\ UNCHANGED stack
           ELSE IF SortRaises(subs)
           THEN Raise(ErrCompare, Len(callers) + 1) /\ UNCHANGED stack
           ELSE /\ stack' = Append(callers, [task |-> entry.task, path |-> entry.path,
                                             subs |-> Sorted(subs),
                                             tasks |-> <<>>, from |-> <<>>])
                /\ UNCHANGED <<pc, error, raisedDepth>>

\* line 67: the next top-level task is handed to traverse_and_schedule
CallTopLevel ==
    /\ pc = "loop"
    /\ stack = <<>>
    /\ sorted_tasks # <<>>
    /\ Call(Head(sorted_tasks), <<>>)
    /\ sorted_tasks' = Tail(sorted_tasks)
    /\ UNCHANGED <<task_hierarchy, original, result, origin, second, first>>

\* line 48: the next sorted subtask is handed to traverse_and_schedule
CallSubtask ==
    /\ pc = "loop"
    /\ stack # <<>>
    /\ stack[Len(stack)].subs # <<>>
    /\ Call(Head(stack[Len(stack)].subs),
            [stack EXCEPT ![Len(stack)].subs = Tail(@)])
    /\ UNCHANGED <<task_hierarchy, original, sorted_tasks, result, origin, second, first>>

\* lines 51-53, then the caller's extend (line 48 or line 67)
Return ==
    /\ pc = "loop"
    /\ stack # <<>>
    /\ LET top == stack[Len(stack)]
           tasks == WithOwnName(top.tasks, top.task.name)
           from == WithOwnName(top.from, top.path)
           below == SubSeq(stack, 1, Len(stack) - 1)
       IN  /\ top.subs = <<>>
           /\ IF below = <<>>
              THEN /\ result' = Extend(result, tasks)
                   /\ origin' = Extend(origin, from)
                   /\ stack' = <<>>
              ELSE /\ stack' = [below EXCEPT ![Len(below)].tasks = Extend(@, tasks),
                                             ![Len(below)].from = Extend(@, from)]
                   /\ UNCHANGED <<result, origin>>
    /\ UNCHANGED <<task_hierarchy, original, pc, sorted_tasks, error, raisedDepth,
                   validateCalls, second, first>>

\* line 69: return result
Finish ==
    /\ pc = "loop"
    /\ stack = <<>>
    /\ sorted_tasks = <<>>
    /\ pc' = "done"
    /\ UNCHANGED <<task_hierarchy, original, sorted_tasks, result, origin, stack, error,
                   raisedDepth, validateCalls, second, first>>

\* the caller invokes schedule_tasks once more on the same objects
CallAgain ==
    /\ pc \in {"done", "raised"}
    /\ ~second
    /\ second' = TRUE
    /\ first' = [pc |-> pc, result |-> IF pc = "done" THEN result ELSE <<>>,
                 error |-> error]
    /\ pc' = "start"
    /\ sorted_tasks' = <<>>
    /\ result' = <<>>
    /\ origin' = <<>>
    /\ stack' = <<>>
    /\ error' = NoError
    /\ raisedDepth' = 0
    /\ validateCalls' = 0
    /\ UNCHANGED <<task_hierarchy, original>>

Next ==
    \/ CheckHierarchy
    \/ SortTopLevel
    \/ CallTopLevel
    \/ CallSubtask
    \/ Return
    \/ Finish
    \/ CallAgain

Spec == Init /\ [][Next]_vars

SpecInvalid == InitInvalid /\ [][Next]_vars

(* ------------------- the input as a tree, for the claims ---------------- *)
\* the schema of a task node and of a hierarchy
RECURSIVE ValidTask(_)
ValidTask(t) ==
    /\ t.isDict
    /\ t.hasName /\ t.nameIsStr
    /\ t.hasPriority => t.priorityType = "number"
    /\ t.hasSubtasks =>
           /\ t.subtasksIsList
           /\ \A i \in 1..Len(t.subtasks) : ValidTask(t.subtasks[i])

ValidHierarchy(h) == h.isList /\ \A i \in 1..Len(h.items) : ValidTask(h.items[i])

\* the paths of the nodes of a subtree and of a hierarchy
RECURSIVE PathsUnder(_, _)
PathsUnder(t, path) ==
    {path} \cup UNION {PathsUnder(t.subtasks[i], Append(path, i)) :
                          i \in 1..Len(t.subtasks)}

AllPaths(h) == UNION {PathsUnder(h.items[i], <<i>>) : i \in 1..Len(h.items)}

RECURSIVE NodeIn(_, _)
NodeIn(items, path) ==
    IF Len(path) = 1 THEN items[path[1]]
    ELSE NodeIn(items[path[1]].subtasks, Tail(path))

NodeAt(h, path) == NodeIn(h.items, path)

RECURSIVE CountNodes(_)
CountNodes(items) ==
    IF items = <<>> THEN 0
    ELSE 1 + CountNodes(Head(items).subtasks) + CountNodes(Tail(items))

\* q lies in the subtree of p
InSubtree(p, q) == Len(p) <= Len(q) /\ SubSeq(q, 1, Len(p)) = p
Parent(p) == SubSeq(p, 1, Len(p) - 1)
Siblings(p, q) == p # q /\ Len(p) = Len(q) /\ Parent(p) = Parent(q)
\* the priority a node is sorted by: an absent priority counts as 0
PriorityOf(h, p) == IF NodeAt(h, p).hasPriority THEN NodeAt(h, p).priority ELSE 0

\* where the node at path p stands in the returned sequence
Positions(p) == {i \in 1..Len(origin) : origin[i] = p}
Position(p) == CHOOSE i \in Positions(p) : TRUE

\* every name of the subtree of p stands before every name of the subtree of q
SubtreeBefore(p, q) ==
    \A x, y \in AllPaths(original) :
        InSubtree(p, x) /\ InSubtree(q, y) => Position(x) < Position(y)

Returned == pc = "done"
Ended == pc \in {"done", "raised"}

(* -------------------------------- claims ------------------------------- *)
\* C1, as stated: on the driver's first case (A with subtasks B, which has
\* subtask D, and C; then E) schedule_tasks returns D, B, C, A, E.
C1_AsStated ==
    (original = Case1 /\ Returned) =>
        result = <<"Task D", "Task B", "Task C", "Task A", "Task E">>

\* C1, amended: on the driver's first case schedule_tasks returns
\* C, D, B, A, E: C (priority 3) is scheduled before its sibling B (priority 1).
C1_Case1Output ==
    (original = Case1 /\ Returned) =>
        result = <<"Task C", "Task D", "Task B", "Task A", "Task E">>

C1_Witness == original = Case1 /\ Returned /\ ~second

\* the hierarchy is a list of dicts whose only schema violations are
\* priorities that are present but not numeric
OnlyPriorityInvalid(h) ==
    /\ h.isList
    /\ ~ValidHierarchy(h)
    /\ \A p \in AllPaths(h) :
           LET t == NodeAt(h, p)
           IN  /\ t.isDict
               /\ t.hasName /\ t.nameIsStr
               /\ t.hasSubtasks => t.subtasksIsList

\* C2, as stated: when the only schema violations are priorities that are
\* present but not numeric, at the top level or nested, the call ends with
\* validate_task's invalid-priority ValueError and with no other error.
C2_InvalidPriorityError ==
    (OnlyPriorityInvalid(original) /\ Ended) => (pc = "raised" /\ error = ErrPriority)

\* C3: in the sequence returned for a valid forest, every node stands strictly
\* after each of its proper descendants, and the name at its position is its own.
C3_ChildrenBeforeParent ==
    Returned =>
        \A p, q \in AllPaths(original) :
            /\ Positions(p) # {}
            /\ result[Position(p)] = NodeAt(original, p).name
            /\ (InSubtree(p, q) /\ p # q) => Position(q) < Position(p)

C3_Witness ==
    /\ Returned
    /\ \E p \in AllPaths(original) : Len(p) = 3
    /\ \E p \in AllPaths(original) :
           /\ Len(p) = 1
           /\ NodeAt(original, p).hasSubtasks
           /\ Len(NodeAt(original, p).subtasks) = 2

\* C4: of two siblings with distinct priorities (absent counts as 0), every
\* name of the subtree of the higher one stands before every name of the
\* subtree of the lower one.
C4_HigherPriorityFirst ==
    Returned =>
        \A p, q \in AllPaths(original) :
            (Siblings(p, q) /\ PriorityOf(original, p) > PriorityOf(original, q))
                => SubtreeBefore(p, q)

\* the higher sibling comes later in the input and has a subtree of its own
C4_Witness ==
    /\ Returned
    /\ \E p, q \in AllPaths(original) :
           /\ Siblings(p, q)
           /\ p[Len(p)] > q[Len(q)]
           /\ PriorityOf(original, p) > PriorityOf(original, q)
           /\ ~NodeAt(original, q).hasPriority
           /\ NodeAt(original, p).hasSubtasks

\* C5: of two siblings with equal priorities (absent counts as 0), the one
\* that comes first in the input list has its whole subtree first.
C5_StableSort ==
    Returned =>
        \A p, q \in AllPaths(original) :
            (/\ Siblings(p, q)
             /\ PriorityOf(original, p) = PriorityOf(original, q)
             /\ p[Len(p)] < q[Len(q)])
                => SubtreeBefore(p, q)

\* an absent priority before an explicit 0, with a higher sibling after them
C5_Witness ==
    /\ Returned
    /\ \E p, q, r \in AllPaths(original) :
           /\ Siblings(p, q) /\ Siblings(q, r)
           /\ p[Len(p)] < q[Len(q)] /\ q[Len(q)] < r[Len(r)]
           /\ ~NodeAt(original, p).hasPriority
           /\ NodeAt(original, q).hasPriority /\ NodeAt(original, q).priority = 0
           /\ PriorityOf(original, r) > 0

\* C6: a valid forest is scheduled without error, and the sequence returned
\* has one entry for each node of the forest, each node contributing once.
C6_OneNamePerNode ==
    /\ (ValidHierarchy(original) /\ Ended) => Returned
    /\ Returned =>
           /\ Len(result) = CountNodes(original.items)
           /\ Len(origin) = Len(result)
           /\ \A p \in AllPaths(original) : Cardinality(Positions(p)) = 1

\* three nodes at two depths, all of the same name
C6_Witness ==
    /\ Returned
    /\ Len(result) = 3
    /\ \A i \in 1..Len(result) : result[i] = "a"
    /\ \E p \in AllPaths(original) : Len(p) = 2

\* C7: a hierarchy with a schema violation anywhere never returns a sequence:
\* the call ends in an error, also after earlier top-level trees were
\* flattened into result; the driver's fifth case ends with the
\* subtasks-not-a-list error.
C7_AllOrNothing ==
    /\ (Ended /\ ~ValidHierarchy(original)) => pc = "raised"
    /\ (Ended /\ original = Case5) => error = ErrSubtasks

C7_Witness ==
    /\ original = Case5
    /\ pc = "raised"
    /\ result = <<"Task Y", "Subtask Valid", "Task Z">>

\* C8: a hierarchy that is not a list ends with the must-be-a-list error; a
\* list with an element that is not a dict ends with the top-level error,
\* whatever else is wrong in it; no validate_task call has been made.
C8_ShapeChecksFirst ==
    pc # "start" =>
        /\ ~original.isList =>
               (pc = "raised" /\ error = ErrHierarchy /\ validateCalls = 0)
        /\ (original.isList /\ \E i \in 1..Len(original.items) : ~original.items[i].isDict)
               => (pc = "raised" /\ error = ErrTopLevel /\ validateCalls = 0)

\* a dict without a name first, then an element that is not a dict
C8_Witness ==
    /\ pc = "raised"
    /\ error = ErrTopLevel
    /\ Len(original.items) = 2
    /\ original.items[1].isDict /\ ~original.items[1].hasName
    /\ ~original.items[2].isDict

\* C9: no step changes the caller's hierarchy, and a second call on it ends
\* as the first one did.
C9_InputNotMutated ==
    /\ task_hierarchy = original
    /\ (second /\ Ended) =>
           /\ first.pc = pc
           /\ first.error = error
           /\ pc = "done" => first.result = result

\* a second call returned, and the top-level sort had reordered the trees
C9_Witness ==
    /\ second
    /\ Returned
    /\ Len(original.items) >= 2
    /\ origin[Len(origin)] # <<Len(original.items)>>

\* the violation validate_task reports at a node: not a dict, then name,
\* then priority, then the type of subtasks
NodeViolation(t) ==
    IF ~t.isDict THEN ErrNotDict
    ELSE IF ~(t.hasName /\ t.nameIsStr) THEN ErrName
    ELSE IF t.hasPriority /\ t.priorityType # "number" THEN ErrPriority
    ELSE IF t.hasSubtasks /\ ~t.subtasksIsList THEN ErrSubtasks
    ELSE NoError

\* the nodes of a tree in pre-order, subtasks in input order
RECURSIVE PreOrder(_)
RECURSIVE PreOrderAll(_)
PreOrder(t) == <<t>> \o PreOrderAll(t.subtasks)
PreOrderAll(items) ==
    IF items = <<>> THEN <<>> ELSE PreOrder(Head(items)) \o PreOrderAll(Tail(items))

FirstViolation(nodes) ==
    LET bad == {i \in 1..Len(nodes) : NodeViolation(nodes[i]) # NoError}
    IN  IF bad = {} THEN NoError
        ELSE NodeViolation(nodes[CHOOSE i \in bad : \A j \in bad : i <= j])

\* the trees in the order of the stable descending sort of their priorities
ExpectedError(h) ==
    LET trees == Sorted(Entries(h.items, <<>>))
        all == PreOrderAll([i \in 1..Len(trees) |-> trees[i].task])
    IN  FirstViolation(all)

PastShapeChecks(h) == h.isList /\ \A i \in 1..Len(h.items) : h.items[i].isDict

\* C10, as stated: past the shape checks, the error of an invalid hierarchy
\* is the first violation met when the top-level trees are taken in stable
\* descending-priority order, each tree in pre-order along the input order
\* of subtasks, each node checked for name, priority, type of subtasks; and
\* it is raised by the validate_task call made on a top-level node.
C10_ErrorOrder ==
    (Ended /\ PastShapeChecks(original) /\ ~ValidHierarchy(original)) =>
        /\ pc = "raised"
        /\ error = ExpectedError(original)
        /\ raisedDepth = 1

\* The order of C10 for the hierarchies whose top-level sort keys can be
\* ordered, where sorted() on line 62 does not raise.
C10_ErrorOrderWhenSortable ==
    (/\ Ended /\ PastShapeChecks(original) /\ ~ValidHierarchy(original)
     /\ ~SortRaises(Entries(original.items, <<>>))) =>
        /\ pc = "raised"
        /\ error = ExpectedError(original)
        /\ raisedDepth = 1

====
